---- MODULE Spec2Model ----
(***************************************************************************)
(* PokemonCardTrading (src/contracts/PokemonCardToken.sol, lines 260-535): *)
(* the escrow / listing / auction / withdrawal engine, together with the   *)
(* part of the PokemonCardToken registry (ERC721) the engine calls.        *)
(*                                                                         *)
(* Every external function is one action that models the whole call: the   *)
(* modifiers in their written order, every require in its written order,   *)
(* the storage writes and the registry call.  A reverted call changes no   *)
(* contract state; its outcome is recorded in `last`.  The only call that  *)
(* spans several steps is withdraw, whose outbound value transfer hands    *)
(* control to the recipient (line 519): while the transfer is in progress  *)
(* the recipient may call back into the engine.                            *)
(***************************************************************************)
EXTENDS Integers, FiniteSets, Sequences, TLC

\* ---------------------------------------------------------------- bounds
MaxTime == 2
MaxValue == 2
MaxBalance == 3

\* ------------------------------------------------------------ principals
Operator == "owner"
Users == {"owner", "alice"}
Engine == "engine"
Zero == "zero"

TokenIds == {0}
Prices == {0, 1, 2}
\* type(uint256).max, scaled to the modelled clock: one more than the last
\* timestamp, so that a one-second auction never overflows and an auction of
\* MaxUint seconds always does.
MaxUint == MaxTime + 1
Durations == {0, 1, MaxUint}
Values == 0 .. MaxValue

FIXED_PRICE == "FIXED_PRICE"
AUCTION == "AUCTION"

Ok == "ok"
EnforcedPause == "EnforcedPause"
ExpectedPause == "ExpectedPause"
ReentrantCall == "ReentrancyGuardReentrantCall"
Unauthorized == "OwnableUnauthorizedAccount"
Transferring == "transferring"
ArithmeticOverflow == "Panic(0x11)"

VARIABLES
    tokenIdCounter,      \* PokemonCardToken._tokenIdCounter
    tokenOwner,          \* ERC721 owner of each token id (Zero: not minted)
    tokenApproval,       \* ERC721 getApproved(tokenId)
    listings,            \* PokemonCardTrading.listings
    pendingWithdrawals,  \* PokemonCardTrading.pendingWithdrawals
    paused,              \* Pausable._paused
    entered,             \* ReentrancyGuard status is ENTERED
    transfer,            \* the withdraw whose value transfer is in progress
    now,                 \* block.timestamp (past zero on every chain)
    balance,             \* address(this).balance of the engine
    accrued,             \* history: credits to each principal since its last withdrawal
    last                 \* outcome of the latest call

tokenVars == <<tokenIdCounter, tokenOwner, tokenApproval>>
engineVars == <<listings, pendingWithdrawals, paused>>
vars == <<tokenIdCounter, tokenOwner, tokenApproval, listings,
          pendingWithdrawals, paused, entered, transfer, now, balance, accrued, last>>

\* The zero value of the Listing struct: what listings[tokenId] reads before
\* the first listing of tokenId.
EmptyListing ==
    [seller |-> Zero, tokenId |-> 0, price |-> 0, endTime |-> 0,
     highestBidder |-> Zero, highestBid |-> 0, listingType |-> FIXED_PRICE,
     active |-> FALSE]

NoTransfer == [to |-> Zero, amount |-> 0, paused |-> FALSE]

Call(op, caller, tokenId, value, duration, err, event) ==
    [op |-> op, caller |-> caller, tokenId |-> tokenId, value |-> value,
     duration |-> duration, err |-> err, event |-> event, nested |-> entered]

Init ==
    /\ tokenIdCounter = 0
    /\ tokenOwner = [t \in TokenIds |-> Zero]
    /\ tokenApproval = [t \in TokenIds |-> Zero]
    /\ listings = [t \in TokenIds |-> EmptyListing]
    /\ pendingWithdrawals = [p \in Users |-> 0]
    /\ paused = FALSE
    /\ entered = FALSE
    /\ transfer = NoTransfer
    /\ now = 1
    /\ balance = 0
    /\ accrued = [p \in Users |-> 0]
    /\ last = [op |-> "constructor", caller |-> Operator, tokenId |-> 0,
               value |-> 0, duration |-> 0, err |-> Ok, event |-> "none",
               nested |-> FALSE]

\* A call can be made by any user between transactions, and only by the
\* recipient of the value transfer while withdraw is handing control to it.
CanCall(caller) ==
    IF entered THEN caller = transfer.to ELSE caller \in Users

\* ------------------------------------------------------ the item registry
\* ERC721.transferFrom(from, to, tokenId) called by spender.
transferFromErr(spender, from, to, tokenId) ==
    IF to = Zero THEN "ERC721InvalidReceiver"
    ELSE IF tokenOwner[tokenId] = Zero THEN "ERC721NonexistentToken"
    ELSE IF ~(\/ tokenOwner[tokenId] = spender
              \/ tokenApproval[tokenId] = spender)
         THEN "ERC721InsufficientApproval"
    ELSE IF tokenOwner[tokenId] # from THEN "ERC721IncorrectOwner"
    ELSE Ok

\* ERC721._update: the new holder, the per-token approval cleared.
MoveToken(to, tokenId) ==
    /\ tokenOwner' = [tokenOwner EXCEPT ![tokenId] = to]
    /\ tokenApproval' = [tokenApproval EXCEPT ![tokenId] = Zero]
    /\ UNCHANGED tokenIdCounter

\* PokemonCardToken.mintPokemonCard, called by the token contract's owner.
mintPokemonCard(caller, to) ==
    /\ ~entered
    /\ caller \in Users
    /\ tokenIdCounter \in TokenIds
    /\ IF caller # Operator
       THEN /\ last' = Call("mint", caller, tokenIdCounter, 0, 0, Unauthorized, "none")
            /\ UNCHANGED tokenVars
       ELSE /\ tokenOwner' = [tokenOwner EXCEPT ![tokenIdCounter] = to]
            /\ tokenIdCounter' = tokenIdCounter + 1
            /\ last' = Call("mint", caller, tokenIdCounter, 0, 0, Ok, "PokemonCardMinted")
            /\ UNCHANGED tokenApproval
    /\ UNCHANGED <<engineVars, entered, transfer, now, balance, accrued>>

\* ERC721.approve(to, tokenId) by the holder of tokenId: the holder authorizes
\* the engine (to = Engine) or clears the authorization (to = Zero).
approve(caller, to, tokenId) ==
    /\ ~entered
    /\ caller \in Users
    /\ tokenOwner[tokenId] = caller
    /\ tokenApproval[tokenId] # to
    /\ tokenApproval' = [tokenApproval EXCEPT ![tokenId] = to]
    /\ last' = Call("approve", caller, tokenId, 0, 0, Ok, "Approval")
    /\ UNCHANGED <<tokenIdCounter, tokenOwner, engineVars, entered, transfer,
                   now, balance, accrued>>

\* ERC721.transferFrom(caller, to, tokenId) called by the holder itself: a
\* custody move that does not go through the engine.
transferFrom(caller, to, tokenId) ==
    /\ ~entered
    /\ caller \in Users
    /\ to # caller
    /\ transferFromErr(caller, caller, to, tokenId) = Ok
    /\ MoveToken(to, tokenId)
    /\ last' = Call("transferFrom", caller, tokenId, 0, 0, Ok, "Transfer")
    /\ UNCHANGED <<engineVars, entered, transfer, now, balance, accrued>>

\* ------------------------------------------------------------ the engine
Rejected(call) ==
    /\ last' = call
    /\ UNCHANGED <<tokenVars, engineVars, entered, transfer, now, balance, accrued>>

\* getApproved(tokenId) == address(this) || isApprovedForAll(msg.sender,
\* address(this)).  No holder grants the engine a blanket approval in the runs
\* modelled here, so the second disjunct is false throughout.
IsApproved(caller, tokenId) ==
    \/ tokenApproval[tokenId] = Engine
    \/ FALSE

\* Faulty variant: a credit that is never written to the ledger.
Credit_dropped(pw, who, amount) == pw

Credit(pw, who, amount) == [pw EXCEPT ![who] = @ + amount]

\* Faulty variant: the deactivating write is forgotten.
Deactivate_forgotten(listing) == listing

\* listing.active = false (lines 409, 442, 468).
Deactivate(listing) == [listing EXCEPT !.active = FALSE]

listCardForSaleErr(caller, tokenId, price) ==
    IF paused THEN EnforcedPause
    ELSE IF entered THEN ReentrantCall
    ELSE IF price = 0 THEN "Price must be greater than zero"
    ELSE IF tokenOwner[tokenId] = Zero THEN "ERC721NonexistentToken"
    ELSE IF tokenOwner[tokenId] # caller THEN "You must own the card to list it"
    ELSE IF listings[tokenId].active THEN "Card already has an active listing"
    ELSE IF ~IsApproved(caller, tokenId)
         THEN "Trading contract is not approved to transfer this token"
    ELSE transferFromErr(Engine, caller, Engine, tokenId)

\* Faulty variant: listCardForSale reuses the listing record of the item and leaves
\* its highest bidder and highest bid as they were.
listCardForSale_staleBid(caller, tokenId, price) ==
    LET err == listCardForSaleErr(caller, tokenId, price) IN
    /\ CanCall(caller)
    /\ IF err # Ok
       THEN Rejected(Call("listCardForSale", caller, tokenId, price, 0, err, "none"))
       ELSE /\ listings' = [listings EXCEPT ![tokenId] =
                   [@ EXCEPT !.seller = caller, !.tokenId = tokenId, !.price = price,
                             !.endTime = 0, !.listingType = FIXED_PRICE,
                             !.active = TRUE]]
            /\ MoveToken(Engine, tokenId)
            /\ last' = Call("listCardForSale", caller, tokenId, price, 0, Ok, "CardListed")
            /\ UNCHANGED <<pendingWithdrawals, paused, entered, transfer, now,
                           balance, accrued>>

\* Faulty variant: a non-custodial listing that looks neither at an existing listing
\* nor moves the item into escrow.
listCardForSale_nonCustodial(caller, tokenId, price) ==
    /\ CanCall(caller)
    /\ ~paused /\ ~entered
    /\ price # 0
    /\ tokenOwner[tokenId] = caller
    /\ IsApproved(caller, tokenId)
    /\ listings' = [listings EXCEPT ![tokenId] =
           [seller |-> caller, tokenId |-> tokenId, price |-> price,
            endTime |-> 0, highestBidder |-> Zero, highestBid |-> 0,
            listingType |-> FIXED_PRICE, active |-> TRUE]]
    /\ last' = Call("listCardForSale", caller, tokenId, price, 0, Ok, "CardListed")
    /\ UNCHANGED <<tokenVars, pendingWithdrawals, paused, entered, transfer, now,
                   balance, accrued>>

listCardForSale(caller, tokenId, price) ==
    LET err == listCardForSaleErr(caller, tokenId, price) IN
    /\ CanCall(caller)
    /\ IF err # Ok
       THEN Rejected(Call("listCardForSale", caller, tokenId, price, 0, err, "none"))
       ELSE /\ listings' = [listings EXCEPT ![tokenId] =
                   [seller |-> caller, tokenId |-> tokenId, price |-> price,
                    endTime |-> 0, highestBidder |-> Zero, highestBid |-> 0,
                    listingType |-> FIXED_PRICE, active |-> TRUE]]
            /\ MoveToken(Engine, tokenId)
            /\ last' = Call("listCardForSale", caller, tokenId, price, 0, Ok, "CardListed")
            /\ UNCHANGED <<pendingWithdrawals, paused, entered, transfer, now,
                           balance, accrued>>

\* Faulty variant: listCardForAuction without the duration check.
listCardForAuctionErr_noDurationCheck(caller, tokenId, startingPrice, duration) ==
    IF paused THEN EnforcedPause
    ELSE IF entered THEN ReentrantCall
    ELSE IF startingPrice = 0 THEN "Starting price must be greater than zero"
    ELSE IF tokenOwner[tokenId] = Zero THEN "ERC721NonexistentToken"
    ELSE IF tokenOwner[tokenId] # caller THEN "You must own the card to list it"
    ELSE IF listings[tokenId].active THEN "Card already has an active listing"
    ELSE IF ~IsApproved(caller, tokenId)
         THEN "Trading contract is not approved to transfer this token"
    ELSE IF now + duration > MaxUint THEN ArithmeticOverflow
    ELSE transferFromErr(Engine, caller, Engine, tokenId)

listCardForAuctionErr(caller, tokenId, startingPrice, duration) ==
    IF paused THEN EnforcedPause
    ELSE IF entered THEN ReentrantCall
    ELSE IF startingPrice = 0 THEN "Starting price must be greater than zero"
    ELSE IF duration = 0 THEN "Duration must be greater than zero"
    ELSE IF tokenOwner[tokenId] = Zero THEN "ERC721NonexistentToken"
    ELSE IF tokenOwner[tokenId] # caller THEN "You must own the card to list it"
    ELSE IF listings[tokenId].active THEN "Card already has an active listing"
    ELSE IF ~IsApproved(caller, tokenId)
         THEN "Trading contract is not approved to transfer this token"
    ELSE IF now + duration > MaxUint THEN ArithmeticOverflow
    ELSE transferFromErr(Engine, caller, Engine, tokenId)

listCardForAuction(caller, tokenId, startingPrice, duration) ==
    LET err == listCardForAuctionErr(caller, tokenId, startingPrice, duration) IN
    /\ CanCall(caller)
    /\ IF err # Ok
       THEN Rejected(Call("listCardForAuction", caller, tokenId, startingPrice,
                          duration, err, "none"))
       ELSE /\ listings' = [listings EXCEPT ![tokenId] =
                   [seller |-> caller, tokenId |-> tokenId, price |-> startingPrice,
                    endTime |-> now + duration, highestBidder |-> Zero,
                    highestBid |-> 0, listingType |-> AUCTION, active |-> TRUE]]
            /\ MoveToken(Engine, tokenId)
            /\ last' = Call("listCardForAuction", caller, tokenId, startingPrice,
                            duration, Ok, "CardListed")
            /\ UNCHANGED <<pendingWithdrawals, paused, entered, transfer, now,
                           balance, accrued>>

\* Faulty variant: only the seller may end its auction.
endAuctionErr_sellerOnly(caller, tokenId) ==
    LET listing == listings[tokenId] IN
    IF entered THEN ReentrantCall
    ELSE IF paused THEN EnforcedPause
    ELSE IF ~listing.active THEN "Listing is not active"
    ELSE IF listing.listingType # AUCTION THEN "Card is not listed for auction"
    ELSE IF ~(now >= listing.endTime) THEN "Auction has not ended yet"
    ELSE IF listing.seller # caller THEN "Only the seller can end the auction"
    ELSE IF listing.highestBidder # Zero
         THEN transferFromErr(Engine, Engine, listing.highestBidder, tokenId)
    ELSE transferFromErr(Engine, Engine, listing.seller, tokenId)

\* Faulty variant: endAuction without the kind check.
endAuctionErr_noKindCheck(caller, tokenId) ==
    LET listing == listings[tokenId] IN
    IF entered THEN ReentrantCall
    ELSE IF paused THEN EnforcedPause
    ELSE IF ~listing.active THEN "Listing is not active"
    ELSE IF ~(now >= listing.endTime) THEN "Auction has not ended yet"
    ELSE IF listing.highestBidder # Zero
         THEN transferFromErr(Engine, Engine, listing.highestBidder, tokenId)
    ELSE transferFromErr(Engine, Engine, listing.seller, tokenId)

\* Faulty variant: endAuction without the deadline check.
endAuctionErr_noDeadline(caller, tokenId) ==
    LET listing == listings[tokenId] IN
    IF entered THEN ReentrantCall
    ELSE IF paused THEN EnforcedPause
    ELSE IF ~listing.active THEN "Listing is not active"
    ELSE IF listing.listingType # AUCTION THEN "Card is not listed for auction"
    ELSE IF listing.highestBidder # Zero
         THEN transferFromErr(Engine, Engine, listing.highestBidder, tokenId)
    ELSE transferFromErr(Engine, Engine, listing.seller, tokenId)

endAuctionErr(caller, tokenId) ==
    LET listing == listings[tokenId] IN
    IF entered THEN ReentrantCall
    ELSE IF paused THEN EnforcedPause
    ELSE IF ~listing.active THEN "Listing is not active"
    ELSE IF listing.listingType # AUCTION THEN "Card is not listed for auction"
    ELSE IF ~(now >= listing.endTime) THEN "Auction has not ended yet"
    ELSE IF listing.highestBidder # Zero
         THEN transferFromErr(Engine, Engine, listing.highestBidder, tokenId)
    ELSE transferFromErr(Engine, Engine, listing.seller, tokenId)

\* Faulty variant: the auction without bids is also reported as AuctionEnded.
endAuction_alwaysEnded(caller, tokenId) ==
    LET err == endAuctionErr(caller, tokenId)
        seller == listings[tokenId].seller
        winner == listings[tokenId].highestBidder
        winningBid == listings[tokenId].highestBid
    IN
    /\ CanCall(caller)
    /\ IF err # Ok
       THEN Rejected(Call("endAuction", caller, tokenId, 0, 0, err, "none"))
       ELSE /\ listings' = [listings EXCEPT ![tokenId] = Deactivate(@)]
            /\ pendingWithdrawals' =
                  IF winner # Zero THEN Credit(pendingWithdrawals, seller, winningBid)
                  ELSE pendingWithdrawals
            /\ accrued' =
                  IF winner # Zero THEN Credit(accrued, seller, winningBid) ELSE accrued
            /\ MoveToken(IF winner # Zero THEN winner ELSE seller, tokenId)
            /\ last' = Call("endAuction", caller, tokenId, 0, 0, Ok, "AuctionEnded")
            /\ UNCHANGED <<paused, entered, transfer, now, balance>>

endAuction(caller, tokenId) ==
    LET err == endAuctionErr(caller, tokenId)
        seller == listings[tokenId].seller
        winner == listings[tokenId].highestBidder
        winningBid == listings[tokenId].highestBid
    IN
    /\ CanCall(caller)
    /\ IF err # Ok
       THEN Rejected(Call("endAuction", caller, tokenId, 0, 0, err, "none"))
       ELSE /\ listings' = [listings EXCEPT ![tokenId] = Deactivate(@)]
            /\ IF winner # Zero
               THEN /\ pendingWithdrawals' = Credit(pendingWithdrawals, seller, winningBid)
                    /\ accrued' = Credit(accrued, seller, winningBid)
                    /\ MoveToken(winner, tokenId)
                    /\ last' = Call("endAuction", caller, tokenId, 0, 0, Ok, "AuctionEnded")
               ELSE /\ MoveToken(seller, tokenId)
                    /\ last' = Call("endAuction", caller, tokenId, 0, 0, Ok,
                                    "CardListingCancelled")
                    /\ UNCHANGED <<pendingWithdrawals, accrued>>
            /\ UNCHANGED <<paused, entered, transfer, now, balance>>

\* Faulty variant: cancelListing without the bids check.
cancelListingErr_noBidsCheck(caller, tokenId) ==
    LET listing == listings[tokenId] IN
    IF paused THEN EnforcedPause
    ELSE IF entered THEN ReentrantCall
    ELSE IF ~listing.active THEN "Listing is not active"
    ELSE IF listing.seller # caller THEN "Only the seller can cancel a listing"
    ELSE transferFromErr(Engine, Engine, caller, tokenId)

\* Faulty variant: cancelListing without the seller check.
cancelListingErr_anyone(caller, tokenId) ==
    LET listing == listings[tokenId] IN
    IF paused THEN EnforcedPause
    ELSE IF entered THEN ReentrantCall
    ELSE IF ~listing.active THEN "Listing is not active"
    ELSE IF listing.listingType = AUCTION /\ listing.highestBidder # Zero
         THEN "Cannot cancel auction with bids"
    ELSE transferFromErr(Engine, Engine, caller, tokenId)

cancelListingErr(caller, tokenId) ==
    LET listing == listings[tokenId] IN
    IF paused THEN EnforcedPause
    ELSE IF entered THEN ReentrantCall
    ELSE IF ~listing.active THEN "Listing is not active"
    ELSE IF listing.seller # caller THEN "Only the seller can cancel a listing"
    ELSE IF listing.listingType = AUCTION /\ listing.highestBidder # Zero
         THEN "Cannot cancel auction with bids"
    ELSE transferFromErr(Engine, Engine, caller, tokenId)

\* Faulty variant: cancelListing deactivates the listing and leaves the item with
\* the engine.
cancelListing_keepsItem(caller, tokenId) ==
    LET err == cancelListingErr(caller, tokenId) IN
    /\ CanCall(caller)
    /\ IF err # Ok
       THEN Rejected(Call("cancelListing", caller, tokenId, 0, 0, err, "none"))
       ELSE /\ listings' = [listings EXCEPT ![tokenId] = Deactivate(@)]
            /\ last' = Call("cancelListing", caller, tokenId, 0, 0, Ok,
                            "CardListingCancelled")
            /\ UNCHANGED <<tokenVars, pendingWithdrawals, paused, entered, transfer,
                           now, balance, accrued>>

cancelListing(caller, tokenId) ==
    LET err == cancelListingErr(caller, tokenId) IN
    /\ CanCall(caller)
    /\ IF err # Ok
       THEN Rejected(Call("cancelListing", caller, tokenId, 0, 0, err, "none"))
       ELSE /\ listings' = [listings EXCEPT ![tokenId] = Deactivate(@)]
            /\ MoveToken(caller, tokenId)
            /\ last' = Call("cancelListing", caller, tokenId, 0, 0, Ok,
                            "CardListingCancelled")
            /\ UNCHANGED <<pendingWithdrawals, paused, entered, transfer, now,
                           balance, accrued>>

\* Faulty variant: buyCard without require(listing.active).
buyCardErr_noActiveCheck(caller, tokenId, value) ==
    LET listing == listings[tokenId] IN
    IF entered THEN ReentrantCall
    ELSE IF paused THEN EnforcedPause
    ELSE IF listing.listingType # FIXED_PRICE THEN "Card is not listed for fixed price"
    ELSE IF ~(value >= listing.price) THEN "Insufficient payment"
    ELSE transferFromErr(Engine, Engine, caller, tokenId)

buyCardErr(caller, tokenId, value) ==
    LET listing == listings[tokenId] IN
    IF entered THEN ReentrantCall
    ELSE IF paused THEN EnforcedPause
    ELSE IF ~listing.active THEN "Listing is not active"
    ELSE IF listing.listingType # FIXED_PRICE THEN "Card is not listed for fixed price"
    ELSE IF ~(value >= listing.price) THEN "Insufficient payment"
    ELSE transferFromErr(Engine, Engine, caller, tokenId)

\* Faulty variant: the whole payment is credited to the seller.
buyCardCredits_allToSeller(seller, buyer, price, value) ==
    Credit(pendingWithdrawals, seller, value)

\* Faulty variant: the excess of the payment is not credited back to the buyer.
buyCardCredits_noChange(seller, buyer, price, value) ==
    Credit(pendingWithdrawals, seller, price)

\* The ledger after lines 470-476: price to the seller, the excess of the
\* payment over the price to the buyer.
buyCardCredits(seller, buyer, price, value) ==
    LET toSeller == Credit(pendingWithdrawals, seller, price) IN
    IF value > price THEN Credit(toSeller, buyer, value - price) ELSE toSeller

buyCard(caller, tokenId, value) ==
    LET err == buyCardErr(caller, tokenId, value)
        price == listings[tokenId].price
        seller == listings[tokenId].seller
    IN
    /\ CanCall(caller)
    /\ IF err # Ok
       THEN Rejected(Call("buyCard", caller, tokenId, value, 0, err, "none"))
       ELSE /\ balance + value <= MaxBalance
            /\ listings' = [listings EXCEPT ![tokenId] = Deactivate(@)]
            /\ pendingWithdrawals' = buyCardCredits(seller, caller, price, value)
            /\ accrued' = Credit(Credit(accrued, seller, price), caller, value - price)
            /\ balance' = balance + value
            /\ MoveToken(caller, tokenId)
            /\ last' = Call("buyCard", caller, tokenId, value, 0, Ok, "CardSold")
            /\ UNCHANGED <<paused, entered, transfer, now>>

\* Faulty variant: placeBid without the deadline check.
placeBidErr_noDeadline(caller, tokenId, value) ==
    LET listing == listings[tokenId] IN
    IF entered THEN ReentrantCall
    ELSE IF paused THEN EnforcedPause
    ELSE IF ~listing.active THEN "Listing is not active"
    ELSE IF listing.listingType # AUCTION THEN "Card is not listed for auction"
    ELSE IF ~(value > listing.highestBid /\ value >= listing.price) THEN "Bid too low"
    ELSE Ok

\* Faulty variant: the bid is compared with the highest bid only, not with the price.
placeBidErr_noPriceCheck(caller, tokenId, value) ==
    LET listing == listings[tokenId] IN
    IF entered THEN ReentrantCall
    ELSE IF paused THEN EnforcedPause
    ELSE IF ~listing.active THEN "Listing is not active"
    ELSE IF listing.listingType # AUCTION THEN "Card is not listed for auction"
    ELSE IF ~(now < listing.endTime) THEN "Auction has ended"
    ELSE IF ~(value > listing.highestBid) THEN "Bid too low"
    ELSE Ok

placeBidErr(caller, tokenId, value) ==
    LET listing == listings[tokenId] IN
    IF entered THEN ReentrantCall
    ELSE IF paused THEN EnforcedPause
    ELSE IF ~listing.active THEN "Listing is not active"
    ELSE IF listing.listingType # AUCTION THEN "Card is not listed for auction"
    ELSE IF ~(now < listing.endTime) THEN "Auction has ended"
    ELSE IF ~(value > listing.highestBid /\ value >= listing.price) THEN "Bid too low"
    ELSE Ok

\* Faulty variant: the outbid amount is credited to the seller, not to its bidder.
placeBidRefund_toSeller(listing) ==
    IF listing.highestBidder # Zero
    THEN Credit(pendingWithdrawals, listing.seller, listing.highestBid)
    ELSE pendingWithdrawals

\* Faulty variant: the outbid bidder is not credited.
placeBidRefund_lost(listing) == pendingWithdrawals

\* The ledger after lines 497-499: the previous highest bid is credited to the
\* previous highest bidder.
placeBidRefund(listing) ==
    IF listing.highestBidder # Zero
    THEN Credit(pendingWithdrawals, listing.highestBidder, listing.highestBid)
    ELSE pendingWithdrawals

\* Faulty variant: the outbid amount is pushed to the previous highest bidder, which
\* is handed control in the middle of placeBid.
placeBid_pushRefund(caller, tokenId, value) ==
    LET err == placeBidErr(caller, tokenId, value)
        listing == listings[tokenId]
    IN
    /\ CanCall(caller)
    /\ IF err # Ok
       THEN Rejected(Call("placeBid", caller, tokenId, value, 0, err, "none"))
       ELSE /\ balance + value <= MaxBalance
            /\ listings' = [listings EXCEPT ![tokenId].highestBidder = caller,
                                            ![tokenId].highestBid = value]
            /\ IF listing.highestBidder # Zero
               THEN /\ entered' = TRUE
                    /\ transfer' = [to |-> listing.highestBidder,
                                    amount |-> listing.highestBid, paused |-> paused]
                    /\ balance' = balance + value - listing.highestBid
               ELSE /\ balance' = balance + value
                    /\ UNCHANGED <<entered, transfer>>
            /\ last' = Call("placeBid", caller, tokenId, value, 0, Ok, "AuctionBid")
            /\ UNCHANGED <<tokenVars, pendingWithdrawals, accrued, paused, now>>

placeBid(caller, tokenId, value) ==
    LET err == placeBidErr(caller, tokenId, value)
        listing == listings[tokenId]
    IN
    /\ CanCall(caller)
    /\ IF err # Ok
       THEN Rejected(Call("placeBid", caller, tokenId, value, 0, err, "none"))
       ELSE /\ balance + value <= MaxBalance
            /\ pendingWithdrawals' = placeBidRefund(listing)
            /\ accrued' = IF listing.highestBidder # Zero
                           THEN Credit(accrued, listing.highestBidder, listing.highestBid)
                           ELSE accrued
            /\ listings' = [listings EXCEPT ![tokenId].highestBidder = caller,
                                            ![tokenId].highestBid = value]
            /\ balance' = balance + value
            /\ last' = Call("placeBid", caller, tokenId, value, 0, Ok, "AuctionBid")
            /\ UNCHANGED <<tokenVars, paused, entered, transfer, now>>

\* Faulty variant: withdraw without require(amount != 0).
withdrawErr_noAmountCheck(caller) ==
    IF entered THEN ReentrantCall
    ELSE IF paused THEN EnforcedPause
    ELSE Ok

withdrawErr(caller) ==
    IF entered THEN ReentrantCall
    ELSE IF paused THEN EnforcedPause
    ELSE IF pendingWithdrawals[caller] = 0 THEN "No funds to withdraw"
    ELSE Ok

\* Faulty variant: withdraw zeroes every balance.
withdrawZeroed_all(caller) == [p \in Users |-> 0]

\* Faulty variant: the balance is not zeroed before the transfer.
withdrawZeroed_late(caller) == pendingWithdrawals

\* pendingWithdrawals[msg.sender] = 0 (line 516), before the transfer.
withdrawZeroed(caller) == [pendingWithdrawals EXCEPT ![caller] = 0]

\* withdraw up to and including the start of the value transfer (lines
\* 511-519): the balance is read and zeroed, then `amount` leaves the engine
\* and control passes to the caller.
withdraw(caller) ==
    LET err == withdrawErr(caller)
        amount == pendingWithdrawals[caller]
    IN
    /\ CanCall(caller)
    /\ IF err # Ok
       THEN Rejected(Call("withdraw", caller, 0, 0, 0, err, "none"))
       ELSE /\ pendingWithdrawals' = withdrawZeroed(caller)
            /\ entered' = TRUE
            /\ transfer' = [to |-> caller, amount |-> amount, paused |-> paused]
            /\ balance' = balance - amount
            /\ accrued' = [accrued EXCEPT ![caller] = 0]
            /\ last' = Call("withdraw", caller, 0, amount, 0, Transferring, "none")
            /\ UNCHANGED <<tokenVars, listings, paused, now>>

\* Faulty variant: a failed value transfer leaves the caller's balance zeroed.
withdrawReturn_zeroKept(success) ==
    /\ entered
    /\ entered' = FALSE
    /\ transfer' = NoTransfer
    /\ IF success
       THEN /\ last' = [op |-> "withdraw.return", caller |-> transfer.to,
                        tokenId |-> 0, value |-> transfer.amount, duration |-> 0,
                        err |-> Ok, event |-> "WithdrawalMade", nested |-> FALSE]
            /\ UNCHANGED <<pendingWithdrawals, paused, balance, accrued>>
       ELSE /\ balance' = balance + transfer.amount
            /\ paused' = transfer.paused
            /\ last' = [op |-> "withdraw.return", caller |-> transfer.to,
                        tokenId |-> 0, value |-> transfer.amount, duration |-> 0,
                        err |-> "Transfer failed", event |-> "none",
                        nested |-> FALSE]
            /\ UNCHANGED <<pendingWithdrawals, accrued>>
    /\ UNCHANGED <<tokenVars, listings, now>>

\* Faulty variant: a failed value transfer does not undo what the recipient did to
\* the gate while the transfer was in progress.
withdrawReturn_gateKept(success) ==
    /\ entered
    /\ entered' = FALSE
    /\ transfer' = NoTransfer
    /\ IF success
       THEN /\ last' = [op |-> "withdraw.return", caller |-> transfer.to,
                        tokenId |-> 0, value |-> transfer.amount, duration |-> 0,
                        err |-> Ok, event |-> "WithdrawalMade", nested |-> FALSE]
            /\ UNCHANGED <<pendingWithdrawals, paused, balance, accrued>>
       ELSE /\ pendingWithdrawals' = [pendingWithdrawals EXCEPT
                                        ![transfer.to] = transfer.amount]
            /\ balance' = balance + transfer.amount
            /\ accrued' = [accrued EXCEPT ![transfer.to] = transfer.amount]
            /\ UNCHANGED paused
            /\ last' = [op |-> "withdraw.return", caller |-> transfer.to,
                        tokenId |-> 0, value |-> transfer.amount, duration |-> 0,
                        err |-> "Transfer failed", event |-> "none",
                        nested |-> FALSE]
    /\ UNCHANGED <<tokenVars, listings, now>>

\* The value transfer returns (lines 519-522).  On success the call completes;
\* on failure the whole transaction reverts: the zeroing, the transfer and
\* whatever the recipient did during the transfer are undone.
withdrawReturn(success) ==
    /\ entered
    /\ entered' = FALSE
    /\ transfer' = NoTransfer
    /\ IF success
       THEN /\ last' = [op |-> "withdraw.return", caller |-> transfer.to,
                        tokenId |-> 0, value |-> transfer.amount, duration |-> 0,
                        err |-> Ok, event |-> "WithdrawalMade", nested |-> FALSE]
            /\ UNCHANGED <<pendingWithdrawals, paused, balance, accrued>>
       ELSE /\ pendingWithdrawals' = [pendingWithdrawals EXCEPT
                                        ![transfer.to] = transfer.amount]
            /\ balance' = balance + transfer.amount
            /\ accrued' = [accrued EXCEPT ![transfer.to] = transfer.amount]
            /\ paused' = transfer.paused
            /\ last' = [op |-> "withdraw.return", caller |-> transfer.to,
                        tokenId |-> 0, value |-> transfer.amount, duration |-> 0,
                        err |-> "Transfer failed", event |-> "none",
                        nested |-> FALSE]
    /\ UNCHANGED <<tokenVars, listings, now>>

\* Faulty variant: pause() without onlyOwner.
pauseErr_anyone(caller) ==
    IF paused THEN EnforcedPause ELSE Ok

\* Pausable / Ownable: pause() is onlyOwner, then _pause() is whenNotPaused.
pauseErr(caller) ==
    IF caller # Operator THEN Unauthorized
    ELSE IF paused THEN EnforcedPause
    ELSE Ok

pause(caller) ==
    LET err == pauseErr(caller) IN
    /\ CanCall(caller)
    /\ IF err # Ok
       THEN Rejected(Call("pause", caller, 0, 0, 0, err, "none"))
       ELSE /\ paused' = TRUE
            /\ last' = Call("pause", caller, 0, 0, 0, Ok, "Paused")
            /\ UNCHANGED <<tokenVars, listings, pendingWithdrawals, entered,
                           transfer, now, balance, accrued>>

\* Faulty variant: _unpause() without whenPaused.
unpauseErr_idempotent(caller) ==
    IF caller # Operator THEN Unauthorized ELSE Ok

\* unpause() is onlyOwner, then _unpause() is whenPaused.
unpauseErr(caller) ==
    IF caller # Operator THEN Unauthorized
    ELSE IF ~paused THEN ExpectedPause
    ELSE Ok

\* Faulty variant: unpause gives every running auction one more unit of time.
unpause_extendsAuctions(caller) ==
    LET err == unpauseErr(caller) IN
    /\ CanCall(caller)
    /\ IF err # Ok
       THEN Rejected(Call("unpause", caller, 0, 0, 0, err, "none"))
       ELSE /\ paused' = FALSE
            /\ listings' = [t \in TokenIds |->
                   IF listings[t].active /\ listings[t].listingType = AUCTION
                   THEN [listings[t] EXCEPT !.endTime = @ + 1]
                   ELSE listings[t]]
            /\ last' = Call("unpause", caller, 0, 0, 0, Ok, "Unpaused")
            /\ UNCHANGED <<tokenVars, pendingWithdrawals, entered,
                           transfer, now, balance, accrued>>

unpause(caller) ==
    LET err == unpauseErr(caller) IN
    /\ CanCall(caller)
    /\ IF err # Ok
       THEN Rejected(Call("unpause", caller, 0, 0, 0, err, "none"))
       ELSE /\ paused' = FALSE
            /\ last' = Call("unpause", caller, 0, 0, 0, Ok, "Unpaused")
            /\ UNCHANGED <<tokenVars, listings, pendingWithdrawals, entered,
                           transfer, now, balance, accrued>>

\* block.timestamp advances between transactions.
Tick ==
    /\ ~entered
    /\ now < MaxTime
    /\ now' = now + 1
    /\ last' = Call("tick", Zero, 0, 0, 0, Ok, "none")
    /\ UNCHANGED <<tokenVars, engineVars, entered, transfer, balance, accrued>>

Callers == Users

\* The arguments a call is drawn with.  A call nested in a value transfer is
\* rejected by its modifiers before any argument is read, so one value
\* stands for all of them.
Args(S) == IF entered THEN {1} ELSE S

Next ==
    \/ \E c \in Callers, to \in Users : mintPokemonCard(c, to)
    \/ \E c \in Callers, to \in {Engine, Zero}, t \in TokenIds : approve(c, to, t)
    \/ \E c \in Callers, to \in Users \cup {Engine}, t \in TokenIds : transferFrom(c, to, t)
    \/ \E c \in Callers, t \in TokenIds, p \in Args(Prices) : listCardForSale(c, t, p)
    \/ \E c \in Callers, t \in TokenIds, p \in Args(Prices), d \in Args(Durations) :
          listCardForAuction(c, t, p, d)
    \/ \E c \in Callers, t \in TokenIds : endAuction(c, t)
    \/ \E c \in Callers, t \in TokenIds : cancelListing(c, t)
    \/ \E c \in Callers, t \in TokenIds, v \in Args(Values) : buyCard(c, t, v)
    \/ \E c \in Callers, t \in TokenIds, v \in Args(Values) : placeBid(c, t, v)
    \/ \E c \in Callers : withdraw(c)
    \/ \E ok \in BOOLEAN : withdrawReturn(ok)
    \/ \E c \in Callers : pause(c)
    \/ \E c \in Callers : unpause(c)
    \/ Tick

Spec == Init /\ [][Next]_vars

\* ------------------------------------------------------------ properties
\* Every step that is not a stuttering step is one call (or one tick), and
\* last' describes it; the unprimed variables are the state the call ran in.

RECURSIVE SumOver(_, _)
SumOver(f, S) ==
    IF S = {} THEN 0
    ELSE LET x == CHOOSE y \in S : TRUE IN f[x] + SumOver(f, S \ {x})

SumPending == SumOver(pendingWithdrawals, Users)

EscrowedBids ==
    SumOver([t \in TokenIds |->
                IF listings[t].active /\ listings[t].listingType = AUCTION
                THEN listings[t].highestBid ELSE 0], TokenIds)

\* The listing store, the withdrawal ledger, item custody, the gate and the
\* value held by the engine.
coreVars == <<tokenVars, listings, pendingWithdrawals, paused, balance>>

ListOps == {"listCardForSale", "listCardForAuction"}
ListingOps == {"buyCard", "placeBid", "endAuction", "cancelListing"}
MutatingOps == ListOps \cup ListingOps \cup {"withdraw"}
NotActive == "Listing is not active"

\* C1: the ledger balances plus the highest bids of the active auctions equal
\* the value paid in by buyCard and placeBid minus the value paid out by
\* withdraw, which is the value the engine holds.
C1_ValueConservation == SumPending + EscrowedBids = balance

C1_Witness ==
    /\ last.op = "withdraw.return" /\ last.err = Ok
    /\ EscrowedBids > 0
    /\ SumPending > 0

\* C2: while the value transfer of withdraw is in progress the recipient's
\* balance is already zero, a nested withdraw is rejected without paying, and
\* value leaves the engine only through a top-level withdraw that pays exactly
\* what was credited to the caller since its last withdrawal.
C2_ReentrancySafe ==
    [][ /\ entered' => pendingWithdrawals'[transfer'.to] = 0
        /\ (entered /\ last'.op = "withdraw") =>
              /\ last'.caller = transfer.to
              /\ pendingWithdrawals[last'.caller] = 0
              /\ last'.err = ReentrantCall
              /\ UNCHANGED <<pendingWithdrawals, balance>>
        /\ balance' < balance =>
              /\ ~entered
              /\ last'.op = "withdraw"
              /\ balance - balance' = accrued[last'.caller]
      ]_vars

C2_Witness ==
    /\ entered
    /\ last.op = "withdraw" /\ last.nested /\ last.caller = transfer.to
    /\ transfer.amount > 0

\* C3: a listing call never succeeds on an item whose listing is active, so an
\* active listing is never overwritten by another one.
C3_OneActiveListing ==
    [][(last'.op \in ListOps /\ last'.err = Ok)
          => ~listings[last'.tokenId].active]_vars

C3_Witness ==
    /\ last.op \in ListOps
    /\ last.value > 0
    /\ last.err \notin {Ok, EnforcedPause, ReentrantCall}
    /\ listings[last.tokenId].active
    /\ last.caller = listings[last.tokenId].seller

\* C4: the registry shows the engine as the holder of every item whose listing
\* is active.
C4_EscrowCustody ==
    \A t \in TokenIds : listings[t].active => tokenOwner[t] = Engine

C4_Witness ==
    \E t \in TokenIds :
        /\ listings[t].active
        /\ tokenOwner[t] = Engine
        /\ last.op = "cancelListing" /\ last.tokenId = t
        /\ last.err = "Only the seller can cancel a listing"

\* C5: while a listing is active its highestBid never decreases; it changes
\* only by an accepted bid, which is greater than the previous highestBid and
\* at least the price; a non-zero highestBid of an active auction is at least
\* the price.
C5_BidsIncrease ==
    [][\A t \in TokenIds :
          LET l == listings[t]
              m == listings'[t]
              accepted == last'.op = "placeBid" /\ last'.err = Ok /\ last'.tokenId = t
          IN
          /\ (l.active /\ m.active) => m.highestBid >= l.highestBid
          /\ (l.active /\ m.active /\ m.highestBid # l.highestBid) => accepted
          /\ accepted => /\ m.highestBid = last'.value
                         /\ last'.value > l.highestBid
                         /\ last'.value >= l.price
          /\ (m.active /\ m.highestBid # 0) => m.highestBid >= m.price
      ]_vars

C5_Witness ==
    \E t \in TokenIds :
        /\ listings[t].active
        /\ listings[t].price = 1
        /\ listings[t].highestBid = 2
        /\ last.op = "placeBid" /\ last.err = Ok
        /\ SumPending >= 1

\* C6: a listing becomes active only by a successful listing call and
\* inactive only by a successful buy, end-auction or cancel; on an inactive
\* listing every buy, bid, end-auction and cancel is rejected and changes
\* nothing, with the not-active rejection whenever the gate lets the call in.
C6_NoResurrection ==
    [][ /\ \A t \in TokenIds :
              /\ (~listings[t].active /\ listings'[t].active) =>
                    (last'.op \in ListOps /\ last'.err = Ok /\ last'.tokenId = t)
              /\ (listings[t].active /\ ~listings'[t].active) =>
                    /\ last'.op \in {"buyCard", "endAuction", "cancelListing"}
                    /\ last'.err = Ok /\ last'.tokenId = t
        /\ (last'.op \in ListingOps /\ ~listings[last'.tokenId].active) =>
              /\ last'.err # Ok
              /\ UNCHANGED coreVars
              /\ (~paused /\ ~entered) => last'.err = NotActive
      ]_vars

C6_Witness ==
    /\ last.op = "buyCard" /\ last.err = NotActive
    /\ listings[last.tokenId].seller # Zero
    /\ listings[last.tokenId].listingType = FIXED_PRICE
    /\ tokenOwner[last.tokenId] \in Users

\* C7: while the gate is paused every mutating call is rejected with the
\* paused error, before any other rejection, and changes nothing.
C7_PausedPrecedence ==
    [][(paused /\ last'.op \in MutatingOps)
          => (last'.err = EnforcedPause /\ UNCHANGED coreVars)]_vars

\* C8: pause and unpause succeed only for the operator; for any other caller
\* they are rejected and change nothing.
C8_OperatorOnly ==
    [][last'.op \in {"pause", "unpause"} =>
          /\ last'.err = Ok => last'.caller = Operator
          /\ last'.caller # Operator =>
                (last'.err = Unauthorized /\ UNCHANGED coreVars)
          /\ paused' # paused => (last'.caller = Operator /\ last'.err = Ok)
      ]_vars

C8_Witness ==
    /\ last.op \in {"pause", "unpause"}
    /\ last.caller # Operator
    /\ last.err = Unauthorized
    /\ \E t \in TokenIds : listings[t].active

\* C9 as stated: unpause by the operator while the gate is not paused is
\* accepted and changes nothing.
C9_UnpauseNoOp ==
    [][(last'.op = "unpause" /\ last'.caller = Operator /\ ~paused)
          => (last'.err = Ok /\ UNCHANGED coreVars)]_vars

\* C9 amended: unpause by the operator while the gate is not paused is
\* rejected with ExpectedPause and changes nothing.
C9_UnpauseRejected ==
    [][(last'.op = "unpause" /\ last'.caller = Operator /\ ~paused)
          => (last'.err = ExpectedPause /\ UNCHANGED coreVars)]_vars

C9_Witness ==
    /\ last.op = "unpause" /\ last.caller = Operator
    /\ last.err = ExpectedPause
    /\ ~paused

\* C10: a withdraw let in by the gate with balance b > 0 transfers exactly b,
\* the credits accrued since the caller's last withdrawal, zeroes the caller's
\* balance and leaves the other balances alone; with balance 0 it is rejected
\* with the nothing-to-withdraw error.
C10_WithdrawExact ==
    [][ /\ (last'.op = "withdraw" /\ ~entered /\ ~paused) =>
              LET c == last'.caller
                  b == pendingWithdrawals[c]
              IN
              IF b = 0
              THEN last'.err = "No funds to withdraw" /\ UNCHANGED coreVars
              ELSE /\ last'.err = Transferring
                   /\ transfer' = [to |-> c, amount |-> b, paused |-> paused]
                   /\ b = accrued[c]
                   /\ balance' = balance - b
                   /\ pendingWithdrawals' = [pendingWithdrawals EXCEPT ![c] = 0]
        /\ (last'.op = "withdraw.return" /\ last'.err = Ok) =>
              /\ last'.caller = transfer.to
              /\ last'.value = transfer.amount
              /\ pendingWithdrawals'[transfer.to] = 0
              /\ UNCHANGED <<pendingWithdrawals, balance, listings, tokenVars>>
      ]_vars

C10_Witness ==
    /\ last.op = "withdraw.return" /\ last.err = Ok
    /\ last.value = 2
    /\ \E p \in Users : p # last.caller /\ pendingWithdrawals[p] > 0

\* C11: a buyCard let in by the gate on an active fixed-price listing with
\* payment >= price succeeds; it deactivates the listing and changes no other
\* field of it, credits exactly price to the seller and payment - price to
\* the buyer on the ledger, keeps the whole payment in the engine, and moves
\* the item from the engine to the buyer.  With payment < price it is
\* rejected as insufficient payment and changes nothing.
C11_BuyEffect ==
    [][(/\ last'.op = "buyCard" /\ ~paused /\ ~entered
        /\ listings[last'.tokenId].active
        /\ listings[last'.tokenId].listingType = FIXED_PRICE) =>
          LET t == last'.tokenId
              buyer == last'.caller
              payment == last'.value
              l == listings[t]
          IN
          IF payment >= l.price
          THEN /\ last'.err = Ok
               /\ listings' = [listings EXCEPT ![t].active = FALSE]
               /\ pendingWithdrawals' =
                     Credit(Credit(pendingWithdrawals, l.seller, l.price),
                            buyer, payment - l.price)
               /\ balance' = balance + payment
               /\ tokenOwner[t] = Engine
               /\ tokenOwner' = [tokenOwner EXCEPT ![t] = buyer]
          ELSE /\ last'.err = "Insufficient payment"
               /\ UNCHANGED coreVars
      ]_vars

C11_Witness ==
    /\ last.op = "buyCard" /\ last.err = Ok
    /\ last.value = 2
    /\ listings[last.tokenId].price = 1
    /\ listings[last.tokenId].seller # last.caller
    /\ ~listings[last.tokenId].active
    /\ pendingWithdrawals[listings[last.tokenId].seller] = 1
    /\ pendingWithdrawals[last.caller] = 1
    /\ tokenOwner[last.tokenId] = last.caller

\* C12: a placeBid of v let in by the gate on an active auction before its
\* endTime is accepted exactly when v > highestBid and v >= price.  When
\* accepted, the previous highest bidder, if any, is credited exactly the
\* previous highest bid and no other balance changes, highestBidder and
\* highestBid become the caller and v, and nothing else of the listing
\* changes.  When rejected, the rejection is bid-too-low and neither the
\* listing nor the ledger changes.
C12_BidAcceptance ==
    [][(/\ last'.op = "placeBid" /\ ~paused /\ ~entered
        /\ listings[last'.tokenId].active
        /\ listings[last'.tokenId].listingType = AUCTION
        /\ now < listings[last'.tokenId].endTime) =>
          LET t == last'.tokenId
              v == last'.value
              l == listings[t]
          IN
          /\ last'.err = Ok <=> (v > l.highestBid /\ v >= l.price)
          /\ last'.err = Ok =>
                /\ pendingWithdrawals' =
                      IF l.highestBidder # Zero
                      THEN Credit(pendingWithdrawals, l.highestBidder, l.highestBid)
                      ELSE pendingWithdrawals
                /\ listings' = [listings EXCEPT ![t].highestBidder = last'.caller,
                                                ![t].highestBid = v]
                /\ balance' = balance + v
                /\ UNCHANGED tokenVars
          /\ last'.err # Ok =>
                /\ last'.err = "Bid too low"
                /\ UNCHANGED coreVars
      ]_vars

C12_Witness ==
    \E t \in TokenIds, p \in Users :
        /\ last.op = "placeBid" /\ last.err = Ok /\ last.tokenId = t
        /\ p # last.caller
        /\ listings[t].active /\ listings[t].listingType = AUCTION
        /\ listings[t].highestBidder = last.caller
        /\ listings[t].highestBid = 2
        /\ pendingWithdrawals[p] = 1
        /\ pendingWithdrawals[last.caller] = 0
        /\ balance = 3

C14_EndWithWinner ==
    [][(/\ last'.op = "endAuction" /\ ~paused /\ ~entered
        /\ listings[last'.tokenId].active
        /\ listings[last'.tokenId].listingType = AUCTION
        /\ now >= listings[last'.tokenId].endTime
        /\ listings[last'.tokenId].highestBidder # Zero) =>
          LET t == last'.tokenId
              l == listings[t]
          IN
          /\ last'.err = Ok /\ last'.event = "AuctionEnded"
          /\ listings' = [listings EXCEPT ![t].active = FALSE]
          /\ pendingWithdrawals' =
                [pendingWithdrawals EXCEPT ![l.seller] = @ + l.highestBid]
          /\ balance' = balance
          /\ tokenOwner[t] = Engine
          /\ tokenOwner' = [tokenOwner EXCEPT ![t] = l.highestBidder]
      ]_vars

C14_Witness ==
    \E t \in TokenIds :
        /\ last.op = "endAuction" /\ last.event = "AuctionEnded" /\ last.tokenId = t
        /\ ~listings[t].active
        /\ listings[t].highestBid = 2
        /\ listings[t].highestBidder # listings[t].seller
        /\ tokenOwner[t] = listings[t].highestBidder
        /\ pendingWithdrawals[listings[t].seller] = 2
        /\ pendingWithdrawals[listings[t].highestBidder] = 1

\* C15: endAuction let in by the gate at now >= endTime on an active auction
\* that has no bid succeeds with CardListingCancelled, not AuctionEnded; it
\* deactivates the listing and changes no other field of it, moves the item
\* from the engine back to the seller, and changes neither the ledger nor
\* the value the engine holds.
C15_EndWithoutBids ==
    [][(/\ last'.op = "endAuction" /\ ~paused /\ ~entered
        /\ listings[last'.tokenId].active
        /\ listings[last'.tokenId].listingType = AUCTION
        /\ now >= listings[last'.tokenId].endTime
        /\ listings[last'.tokenId].highestBidder = Zero) =>
          LET t == last'.tokenId
              l == listings[t]
          IN
          /\ last'.err = Ok /\ last'.event = "CardListingCancelled"
          /\ listings' = [listings EXCEPT ![t].active = FALSE]
          /\ l.highestBid = 0
          /\ tokenOwner[t] = Engine
          /\ tokenOwner' = [tokenOwner EXCEPT ![t] = l.seller]
          /\ UNCHANGED <<pendingWithdrawals, balance>>
      ]_vars

C15_Witness ==
    \E t \in TokenIds :
        /\ last.op = "endAuction" /\ last.err = Ok /\ last.tokenId = t
        /\ last.event = "CardListingCancelled"
        /\ last.caller # listings[t].seller
        /\ ~listings[t].active
        /\ listings[t].listingType = AUCTION
        /\ listings[t].highestBidder = Zero
        /\ tokenOwner[t] = listings[t].seller
        /\ now >= listings[t].endTime

\* C16: a cancelListing let in by the gate on an active listing by anyone
\* but its seller is rejected with the only-the-seller rejection and changes
\* nothing: the listing stays active and the item stays with the engine.
\* By the seller, on a fixed-price listing or on an auction without bids, it
\* succeeds, deactivates the listing and changes no other field of it, moves
\* the item from the engine back to the seller, and changes neither the
\* ledger nor the value the engine holds.
C16_CancelBySellerOnly ==
    [][(/\ last'.op = "cancelListing" /\ ~paused /\ ~entered
        /\ listings[last'.tokenId].active) =>
          LET t == last'.tokenId
              l == listings[t]
          IN
          /\ last'.caller # l.seller =>
                /\ last'.err = "Only the seller can cancel a listing"
                /\ UNCHANGED coreVars
                /\ listings'[t].active /\ tokenOwner'[t] = Engine
          /\ (/\ last'.caller = l.seller
              /\ (l.listingType = FIXED_PRICE \/ l.highestBidder = Zero)) =>
                /\ last'.err = Ok /\ last'.event = "CardListingCancelled"
                /\ listings' = [listings EXCEPT ![t].active = FALSE]
                /\ tokenOwner[t] = Engine
                /\ tokenOwner' = [tokenOwner EXCEPT ![t] = l.seller]
                /\ UNCHANGED <<pendingWithdrawals, balance>>
      ]_vars

C16_Witness ==
    \E t \in TokenIds :
        /\ last.op = "cancelListing" /\ last.tokenId = t
        /\ last.err = "Only the seller can cancel a listing"
        /\ last.caller # listings[t].seller
        /\ listings[t].active
        /\ listings[t].listingType = FIXED_PRICE
        /\ tokenOwner[t] = Engine

\* C17: on an active auction that has a highest bidder cancelListing never
\* succeeds and changes nothing, before and after endTime; the seller's call,
\* when the gate lets it in, is rejected with the auction-has-bids
\* rejection.  Such an auction is deactivated only by a successful
\* endAuction, which hands the item to the highest bidder.
C17_NoCancelWithBids ==
    [][\A t \in TokenIds :
          LET l == listings[t] IN
          (l.active /\ l.listingType = AUCTION /\ l.highestBidder # Zero) =>
             /\ (last'.op = "cancelListing" /\ last'.tokenId = t) =>
                   /\ last'.err # Ok
                   /\ UNCHANGED coreVars
                   /\ (~paused /\ ~entered /\ last'.caller = l.seller) =>
                         last'.err = "Cannot cancel auction with bids"
             /\ ~listings'[t].active =>
                   /\ last'.op = "endAuction" /\ last'.err = Ok /\ last'.tokenId = t
                   /\ tokenOwner'[t] = l.highestBidder
             /\ listings'[t].active => listings'[t].highestBidder # Zero
      ]_vars

C17_Witness ==
    \E t \in TokenIds :
        /\ last.op = "cancelListing" /\ last.tokenId = t
        /\ last.err = "Cannot cancel auction with bids"
        /\ last.caller = listings[t].seller
        /\ listings[t].active
        /\ listings[t].highestBidder # Zero
        /\ now >= listings[t].endTime

\* What a listing call asks for: a price above zero (and, for an auction, a
\* duration above zero), the caller holding the item, no active listing of
\* the item, and the engine authorized by the caller.
ListPreconditions(call) ==
    /\ call.value > 0
    /\ call.op = "listCardForAuction" => call.duration > 0
    /\ tokenOwner[call.tokenId] = call.caller
    /\ ~listings[call.tokenId].active
    /\ IsApproved(call.caller, call.tokenId)

\* What a successful listing call does: the listing it creates and the move
\* of the item from the caller to the engine, the ledger left alone.
ListEffects(call) ==
    /\ listings' = [listings EXCEPT ![call.tokenId] =
          [seller |-> call.caller, tokenId |-> call.tokenId, price |-> call.value,
           endTime |-> IF call.op = "listCardForAuction"
                       THEN now + call.duration ELSE 0,
           highestBidder |-> Zero, highestBid |-> 0,
           listingType |-> IF call.op = "listCardForAuction"
                           THEN AUCTION ELSE FIXED_PRICE,
           active |-> TRUE]]
    /\ tokenOwner[call.tokenId] = call.caller
    /\ tokenOwner' = [tokenOwner EXCEPT ![call.tokenId] = Engine]
    /\ UNCHANGED <<pendingWithdrawals, balance>>

\* C18 as stated: a listing call let in by the gate succeeds exactly when
\* its preconditions hold, and then creates the listing and takes the item
\* into escrow.
C18_ListIff ==
    [][(last'.op \in ListOps /\ ~paused /\ ~entered) =>
          /\ last'.err = Ok <=> ListPreconditions(last')
          /\ last'.err = Ok => ListEffects(last')
      ]_vars

\* C18 amended: a listing call let in by the gate succeeds exactly when its
\* preconditions hold and, for an auction, now + duration is a representable
\* time; it then creates the listing and takes the item into escrow.  When
\* it does not succeed it changes nothing.
C18_ListIffRepresentable ==
    [][(last'.op \in ListOps /\ ~paused /\ ~entered) =>
          /\ last'.err = Ok <=>
                /\ ListPreconditions(last')
                /\ last'.op = "listCardForAuction" => now + last'.duration <= MaxUint
          /\ last'.err = Ok => ListEffects(last')
          /\ last'.err # Ok => UNCHANGED coreVars
      ]_vars

C18_Witness ==
    \E t \in TokenIds :
        /\ last.op = "listCardForAuction" /\ last.err = Ok /\ last.tokenId = t
        /\ listings[t].active /\ listings[t].listingType = AUCTION
        /\ listings[t].seller = last.caller
        /\ listings[t].price = 2 /\ last.value = 2
        /\ listings[t].endTime = now + 1 /\ last.duration = 1
        /\ listings[t].highestBidder = Zero /\ listings[t].highestBid = 0
        /\ tokenOwner[t] = Engine
        /\ last.caller # Operator

\* C19: a listing call with a price (and duration) above zero, let in by the
\* gate, on an item that has an active listing is rejected with the
\* already-listed rejection and changes nothing.
C19_AlreadyListedRejection ==
    [][(/\ last'.op \in ListOps /\ ~paused /\ ~entered
        /\ last'.value > 0
        /\ last'.op = "listCardForAuction" => last'.duration > 0
        /\ listings[last'.tokenId].active) =>
          /\ last'.err = "Card already has an active listing"
          /\ UNCHANGED coreVars
      ]_vars

\* C20: every call is all-or-nothing.  A call that is rejected leaves the
\* listing store, the ledger, custody, the gate and the value the engine
\* holds exactly as they were.  A withdraw whose value transfer fails leaves
\* them exactly as they were before the withdraw: the transfer in progress
\* records the amount and the gate state of that moment, nothing done while
\* it is in progress touches the listings, the ledger, custody or the value
\* held, and the failed return puts the amount, the value held and the gate
\* state back.
C20_AllOrNothing ==
    [][ /\ (last'.err \notin {Ok, Transferring} /\ last'.op # "withdraw.return") =>
              UNCHANGED coreVars
        /\ (last'.op = "withdraw" /\ last'.err = Transferring) =>
              /\ transfer' = [to |-> last'.caller,
                              amount |-> pendingWithdrawals[last'.caller],
                              paused |-> paused]
              /\ pendingWithdrawals' =
                    [pendingWithdrawals EXCEPT ![last'.caller] = 0]
              /\ balance' = balance - pendingWithdrawals[last'.caller]
              /\ UNCHANGED <<tokenVars, listings, paused>>
        /\ (entered /\ last'.op # "withdraw.return") =>
              UNCHANGED <<tokenVars, listings, pendingWithdrawals, balance, transfer>>
        /\ (last'.op = "withdraw.return" /\ last'.err # Ok) =>
              /\ pendingWithdrawals[transfer.to] = 0
              /\ pendingWithdrawals' =
                    [pendingWithdrawals EXCEPT ![transfer.to] = transfer.amount]
              /\ balance' = balance + transfer.amount
              /\ paused' = transfer.paused
              /\ UNCHANGED <<tokenVars, listings>>
      ]_vars

C20_Witness ==
    /\ last.op = "withdraw.return" /\ last.err = "Transfer failed"
    /\ pendingWithdrawals[last.caller] = 2
    /\ last.value = 2
    /\ last.caller = Operator
    /\ ~paused
    /\ balance = 3
    /\ \E t \in TokenIds : listings[t].active

\* C21: placeBid hands no value and no control to anyone: it starts no value
\* transfer, the value the engine holds never goes down by it, and a bid let
\* in by the gate on an active auction before endTime that is above the
\* highest bid and not below the price is accepted whoever the previous
\* highest bidder is; that bidder is paid only through its own withdraw,
\* which may fail without touching the auction.
C21_BidNeverPushes ==
    [][ /\ last'.op = "placeBid" =>
              /\ UNCHANGED <<entered, transfer>>
              /\ balance' = balance + (IF last'.err = Ok THEN last'.value ELSE 0)
              /\ LET l == listings[last'.tokenId] IN
                 (/\ ~paused /\ ~entered
                  /\ l.active /\ l.listingType = AUCTION /\ now < l.endTime
                  /\ last'.value > l.highestBid /\ last'.value >= l.price)
                    => last'.err = Ok
        /\ (last'.op = "withdraw.return" /\ last'.err # Ok) => UNCHANGED listings
      ]_vars

C21_Witness ==
    \E t \in TokenIds :
        /\ last.op = "withdraw.return" /\ last.err = "Transfer failed"
        /\ listings[t].active /\ listings[t].listingType = AUCTION
        /\ listings[t].highestBidder \notin {Zero, last.caller}
        /\ listings[t].seller # last.caller
        /\ listings[t].highestBid = 2
        /\ pendingWithdrawals[last.caller] = 1

\* C22: listing kinds never cross.  An active fixed-price listing, whose
\* endTime is 0, is deactivated only by a successful buyCard or by a
\* successful cancelListing of its seller; placeBid and endAuction on it
\* are always rejected and change nothing, with the not-an-auction
\* rejection when the gate lets the call in.  An active auction is
\* deactivated only by a successful endAuction or by a successful
\* cancelListing of its seller while it has no bid; buyCard on it is always
\* rejected and changes nothing, whatever the payment, with the
\* not-fixed-price rejection when the gate lets the call in.  The kind of an
\* active listing never changes.
C22_KindsNeverCross ==
    [][\A t \in TokenIds :
          LET l == listings[t]
              open == ~paused /\ ~entered
              on(op) == last'.op = op /\ last'.tokenId = t
          IN
          /\ (l.active /\ l.listingType = FIXED_PRICE) =>
                /\ l.endTime = 0 /\ now >= l.endTime
                /\ ~listings'[t].active =>
                      /\ last'.err = Ok
                      /\ \/ on("buyCard")
                         \/ on("cancelListing") /\ last'.caller = l.seller
                /\ (on("placeBid") \/ on("endAuction")) =>
                      /\ last'.err # Ok
                      /\ UNCHANGED coreVars
                      /\ open => last'.err = "Card is not listed for auction"
          /\ (l.active /\ l.listingType = AUCTION) =>
                /\ ~listings'[t].active =>
                      /\ last'.err = Ok
                      /\ \/ on("endAuction")
                         \/ /\ on("cancelListing") /\ last'.caller = l.seller
                            /\ l.highestBidder = Zero
                /\ on("buyCard") =>
                      /\ last'.err # Ok
                      /\ UNCHANGED coreVars
                      /\ open => last'.err = "Card is not listed for fixed price"
          /\ (l.active /\ listings'[t].active) =>
                listings'[t].listingType = l.listingType
      ]_vars

C22_Witness ==
    \E t \in TokenIds :
        /\ last.op = "endAuction" /\ last.tokenId = t
        /\ last.err = "Card is not listed for auction"
        /\ listings[t].active /\ listings[t].listingType = FIXED_PRICE
        /\ listings[t].endTime = 0 /\ now > 1
        /\ tokenOwner[t] = Engine

\* C23: on an active auction whose endTime has been reached every placeBid
\* is rejected and changes nothing, however high the bid, with the
\* auction-has-ended rejection when the gate lets the call in; from endTime
\* on no step changes the highest bidder or the highest bid of the auction,
\* up to and including the step that settles it.
C23_FrozenAfterDeadline ==
    [][\A t \in TokenIds :
          LET l == listings[t] IN
          (l.active /\ l.listingType = AUCTION /\ now >= l.endTime) =>
             /\ (last'.op = "placeBid" /\ last'.tokenId = t) =>
                   /\ last'.err # Ok
                   /\ UNCHANGED coreVars
                   /\ (~paused /\ ~entered) => last'.err = "Auction has ended"
             /\ listings'[t].highestBidder = l.highestBidder
             /\ listings'[t].highestBid = l.highestBid
             /\ listings'[t].endTime = l.endTime
      ]_vars

C23_Witness ==
    \E t \in TokenIds :
        /\ last.op = "placeBid" /\ last.tokenId = t
        /\ last.err = "Auction has ended"
        /\ last.value = 2
        /\ listings[t].active
        /\ listings[t].highestBid = 1
        /\ listings[t].highestBidder # last.caller
        /\ now >= listings[t].endTime

\* C24: while the value transfer of a withdraw is in progress the caller's
\* balance is zero and the amount in transfer is the balance the caller had
\* when it called; if the transfer fails, the caller's balance is that amount
\* again, no other balance changes, the value is back in the engine, and
\* nothing stands in the way of withdrawing it later: no call is in
\* progress and the gate is as open as it was when withdraw was called.
C24_FailedTransferRestores ==
    [][ /\ (last'.op = "withdraw" /\ last'.err = Transferring) =>
              /\ pendingWithdrawals[last'.caller] > 0
              /\ transfer'.to = last'.caller
              /\ transfer'.amount = pendingWithdrawals[last'.caller]
              /\ ~transfer'.paused
        /\ (entered /\ entered') =>
              /\ UNCHANGED <<transfer, pendingWithdrawals>>
              /\ pendingWithdrawals[transfer.to] = 0
        /\ (last'.op = "withdraw.return" /\ last'.err # Ok) =>
              /\ last'.err = "Transfer failed" /\ last'.event = "none"
              /\ \A p \in Users :
                    pendingWithdrawals'[p] =
                       IF p = transfer.to THEN transfer.amount
                       ELSE pendingWithdrawals[p]
              /\ balance' = balance + transfer.amount
              /\ balance' >= pendingWithdrawals'[transfer.to]
              /\ ~entered' /\ ~paused'
      ]_vars

C24_Witness ==
    /\ last.op = "withdraw.return" /\ last.err = "Transfer failed"
    /\ last.caller # Operator
    /\ last.value = 1
    /\ pendingWithdrawals[last.caller] = 1
    /\ pendingWithdrawals[Operator] = 2
    /\ balance = 3
    /\ ~entered /\ ~paused

\* C25: every accepted bid is credited exactly once.  While an auction is
\* active its highest bid is held by the engine on top of all the ledger
\* balances, so nobody can withdraw it.  The step that replaces or settles
\* the highest bid credits exactly that amount to exactly one principal:
\* its bidder when it is outbid, the seller when the auction is settled.
\* While the listing stays as it is, no balance grows, except by a failed
\* withdraw getting its own amount back.
C25_BidCreditedOnce ==
    [][\A t \in TokenIds :
          LET l == listings[t]
              m == listings'[t]
          IN
          (l.active /\ l.listingType = AUCTION) =>
             /\ SumPending + l.highestBid <= balance
             /\ l.highestBidder = Zero <=> l.highestBid = 0
             /\ (m # l /\ l.highestBidder = Zero) => UNCHANGED pendingWithdrawals
             /\ (m # l /\ l.highestBidder # Zero) =>
                   LET who == IF m.active THEN l.highestBidder ELSE l.seller IN
                   /\ pendingWithdrawals' =
                         [pendingWithdrawals EXCEPT ![who] = @ + l.highestBid]
                   /\ SumPending' = SumPending + l.highestBid
                   /\ m.active => (last'.op = "placeBid" /\ m.highestBid = last'.value)
                   /\ ~m.active => last'.op = "endAuction"
             /\ (m = l /\ last'.op # "withdraw.return") =>
                   \A p \in Users : pendingWithdrawals'[p] <= pendingWithdrawals[p]
      ]_vars

C25_Witness ==
    \E t \in TokenIds :
        /\ last.op = "withdraw" /\ last.err = "No funds to withdraw"
        /\ listings[t].active /\ listings[t].listingType = AUCTION
        /\ listings[t].highestBidder = last.caller
        /\ listings[t].highestBid = 2
        /\ balance = 3
        /\ SumPending = 1

\* What the environment of the engine is taken to do in the long run: the
\* clock advances, a value transfer in progress returns, the operator who
\* paused the gate unpauses it, and a principal that can take an item out of
\* escrow (the seller by cancelListing, any caller by endAuction) does so if
\* it can again and again.
EndsAuction == \E c \in Callers, t \in TokenIds : endAuction(c, t) /\ last'.err = Ok
CancelsListing == \E c \in Callers, t \in TokenIds : cancelListing(c, t) /\ last'.err = Ok
Unpauses == unpause(Operator) /\ last'.err = Ok
TransferReturns == \E ok \in BOOLEAN : withdrawReturn(ok)

\* A reverted transaction leaves no trace in the contract: the long-run
\* behaviour is that of the calls that take effect, a withdraw whose transfer
\* fails included (its steps undo one another).
Effective == last'.err \in {Ok, Transferring} \/ last'.op = "withdraw.return"
FairNext == Next /\ Effective

FairSpec ==
    /\ Init /\ [][FairNext]_vars
    /\ SF_vars(Tick)
    /\ WF_vars(TransferReturns)
    /\ SF_vars(Unpauses)
    /\ SF_vars(EndsAuction)
    /\ SF_vars(CancelsListing)

\* The deactivating call that an active listing has: cancelListing by the
\* seller for a fixed-price listing and for an auction without bids,
\* endAuction by any caller for an auction whose endTime has been reached.
HasExit(t) ==
    LET l == listings[t] IN
    /\ (l.listingType = FIXED_PRICE \/ l.highestBidder = Zero) =>
          cancelListingErr(l.seller, t) = Ok
    /\ (l.listingType = AUCTION /\ now >= l.endTime) =>
          \A c \in Callers : endAuctionErr(c, t) = Ok
    /\ (l.listingType = AUCTION /\ l.highestBidder # Zero) => l.endTime > 0

\* C26: no listing is stuck.  Whenever the gate is open and no call is in
\* progress, every active listing has a deactivating call that would
\* succeed now, or it is an auction with bids whose endTime is still ahead;
\* and, the environment being fair, every active listing whose endTime is
\* within the modelled time is eventually deactivated.
C26_NoStuckListing ==
    /\ [](\A t \in TokenIds :
             (listings[t].active /\ ~paused /\ ~entered) => HasExit(t))
    /\ \A t \in TokenIds :
          (listings[t].active /\ listings[t].endTime <= MaxTime)
             ~> ~listings[t].active

C26_Witness ==
    \E t \in TokenIds :
        /\ last.op = "endAuction" /\ last.err = Ok /\ last.tokenId = t
        /\ last.caller \notin {listings[t].seller, listings[t].highestBidder}
        /\ listings[t].highestBidder # Zero
        /\ ~listings[t].active
        /\ pendingWithdrawals[listings[t].seller] >= listings[t].highestBid
        /\ tokenOwner[t] = listings[t].highestBidder

\* C27: the calls of the engine never leave an item with the engine without
\* an active listing.  The step that deactivates a listing moves the item
\* from the engine to a principal; the engine becomes the holder of an item
\* either by a successful listing call, which leaves the listing active, or
\* by a transfer made directly at the registry; and an item held by the
\* engine without an active listing got there by such a direct transfer.
C27_NoEscrowWithoutListing ==
    [][\A t \in TokenIds :
          LET idle == tokenOwner[t] = Engine /\ ~listings[t].active
              idleNext == tokenOwner'[t] = Engine /\ ~listings'[t].active
          IN
          /\ (listings[t].active /\ ~listings'[t].active) =>
                /\ tokenOwner[t] = Engine
                /\ tokenOwner'[t] \in Users
                /\ last'.op \in {"buyCard", "endAuction", "cancelListing"}
          /\ (tokenOwner[t] # Engine /\ tokenOwner'[t] = Engine) =>
                \/ last'.op \in ListOps /\ last'.err = Ok /\ listings'[t].active
                \/ last'.op = "transferFrom"
          /\ (idleNext /\ ~idle) => last'.op = "transferFrom"
      ]_vars

C27_Witness ==
    \E t \in TokenIds :
        /\ last.op = "cancelListing" /\ last.err = Ok /\ last.tokenId = t
        /\ ~listings[t].active
        /\ listings[t].listingType = AUCTION
        /\ tokenOwner[t] = listings[t].seller
        /\ tokenOwner[t] # Operator

\* C28: a relisted item starts clean.  Every successful listing call creates
\* a listing without highest bidder and with highest bid 0 and touches no
\* balance, whatever the listing record of the item held before.  In an
\* active listing the highest bidder changes only to the caller of an
\* accepted placeBid on that listing, a step on a listing without highest
\* bidder credits nobody unless it is a buyCard, and the item leaves a
\* listing only to its seller, to its highest bidder or to the caller of
\* buyCard.
C28_RelistStartsClean ==
    [][\A t \in TokenIds :
          LET l == listings[t]
              m == listings'[t]
              on(op) == last'.op = op /\ last'.tokenId = t /\ last'.err = Ok
          IN
          /\ (on("listCardForSale") \/ on("listCardForAuction")) =>
                /\ m.active
                /\ m.highestBidder = Zero /\ m.highestBid = 0
                /\ m.seller = last'.caller
                /\ UNCHANGED <<pendingWithdrawals, balance>>
          /\ (m.active /\ m.highestBidder # Zero
              /\ (~l.active \/ m.highestBidder # l.highestBidder)) =>
                (l.active /\ on("placeBid") /\ m.highestBidder = last'.caller)
          /\ (l.active /\ l.highestBidder = Zero /\ m # l /\ ~on("buyCard")) =>
                UNCHANGED pendingWithdrawals
          /\ (l.active /\ ~m.active) =>
                \/ tokenOwner'[t] = l.seller
                \/ tokenOwner'[t] = l.highestBidder
                \/ on("buyCard") /\ tokenOwner'[t] = last'.caller
      ]_vars

C28_Witness ==
    \E t \in TokenIds, p \in Users :
        /\ last.op = "listCardForSale" /\ last.err = Ok /\ last.tokenId = t
        /\ p # last.caller
        /\ listings[t].active /\ listings[t].listingType = FIXED_PRICE
        /\ listings[t].highestBidder = Zero /\ listings[t].highestBid = 0
        /\ pendingWithdrawals[p] = 2
        /\ pendingWithdrawals[last.caller] = 1
        /\ balance = 3
        /\ now > 1

\* C29: pausing does not stop the auction clock.  pause and unpause change
\* nothing but the gate flag; time advances whether or not the gate is
\* paused and changes nothing else; the endTime of an active listing never
\* changes; no step taken while the gate is paused changes a listing or
\* takes an item from the engine, and none but the return of a failed
\* withdraw changes a balance; and
\* right after a successful unpause an auction whose endTime has been
\* reached takes no bid and is settled by endAuction with the highest
\* bidder it has.
C29_ClockIgnoresPause ==
    [][ /\ last'.op \in {"pause", "unpause"} =>
              UNCHANGED <<tokenVars, listings, pendingWithdrawals, balance, now>>
        /\ last'.op = "tick" =>
              /\ now' = now + 1
              /\ UNCHANGED coreVars
        /\ paused =>
              /\ UNCHANGED <<listings, pendingWithdrawals>> \/ last'.op = "withdraw.return"
              /\ UNCHANGED listings
              /\ \A t \in TokenIds : tokenOwner[t] = Engine => tokenOwner'[t] = Engine
        /\ \A t \in TokenIds :
              /\ (listings[t].active /\ listings'[t].active) =>
                    listings'[t].endTime = listings[t].endTime
              /\ (/\ last'.op = "unpause" /\ last'.err = Ok /\ ~entered'
                  /\ listings[t].active /\ listings[t].listingType = AUCTION
                  /\ now >= listings[t].endTime) =>
                    /\ \A c \in Callers, v \in Values :
                          placeBidErr(c, t, v)' = "Auction has ended"
                    /\ \A c \in Callers : endAuctionErr(c, t)' = Ok
                    /\ listings'[t].highestBidder = listings[t].highestBidder
      ]_vars

C29_Witness ==
    \E t \in TokenIds :
        /\ last.op = "tick"
        /\ paused
        /\ listings[t].active /\ listings[t].listingType = AUCTION
        /\ listings[t].highestBidder # Zero
        /\ now = listings[t].endTime

\* C30: the balance of a principal goes down only in a withdraw called by
\* that principal, which zeroes it and sends exactly that amount to that
\* principal and to nobody else; value leaves the engine only in such a
\* step; every other step leaves each balance as it is or raises it.
C30_OnlyOwnWithdrawLowers ==
    [][ /\ \A p \in Users :
              pendingWithdrawals'[p] < pendingWithdrawals[p] =>
                 /\ last'.op = "withdraw" /\ last'.caller = p
                 /\ last'.err = Transferring
                 /\ pendingWithdrawals'[p] = 0
                 /\ transfer' = [to |-> p, amount |-> pendingWithdrawals[p],
                                 paused |-> paused]
                 /\ balance' = balance - pendingWithdrawals[p]
                 /\ \A q \in Users \ {p} :
                       pendingWithdrawals'[q] = pendingWithdrawals[q]
        /\ balance' < balance =>
              /\ last'.op = "withdraw"
              /\ balance - balance' = pendingWithdrawals[last'.caller]
        /\ (last'.op = "withdraw.return" /\ last'.err = Ok) =>
              /\ last'.caller = transfer.to
              /\ UNCHANGED <<pendingWithdrawals, balance>>
      ]_vars

C30_Witness ==
    \E p \in Users :
        /\ last.op = "withdraw" /\ last.err = Transferring
        /\ last.caller = Operator /\ p # Operator
        /\ entered
        /\ transfer = [to |-> Operator, amount |-> 1, paused |-> FALSE]
        /\ pendingWithdrawals[Operator] = 0
        /\ pendingWithdrawals[p] = 2
        /\ balance = 2
====
